---- MODULE Spec2Model ----
(***************************************************************************)
(* Model of the flow-event-poller (src/poller.go): the subscription index, *)
(* EventPoller.Run, checkSubscriptions and pollEvents, with the ledger     *)
(* client and the context as the environment.                              *)
(*                                                                         *)
(* A block header is modelled by its Height, the only field the poller     *)
(* reads.  An error value is modelled by its Unwrap chain, a sequence of   *)
(* tags, outermost first; the nil error is the empty chain.                *)
(***************************************************************************)
EXTENDS Integers, Sequences, FiniteSets, TLC

(***************************************************************************)
(* Bounds of the model.                                                    *)
(***************************************************************************)
\* timer firings taken by one Run
MaxTicks == 2
\* Subscribe calls made before Run
MaxSubs == 2
\* Unsubscribe calls made before Run
MaxUnsubs == 1
\* subscriptions whose Channel is never read
MaxUndrained == 1
\* ledger client calls that fail while the context is not cancelled
MaxFailures == 1
\* the chain head is BaseHeight or this many full ranges above it
MaxWindows == 2

(***************************************************************************)
(* Program constants.                                                      *)
(***************************************************************************)
DefaultMaxHeightRange == 250

ErrorBehaviorContinue == 0

ErrorBehaviorStop == 1

Nil == <<>>

ErrAbort == <<"polling aborted due to an error">>

(***************************************************************************)
(* The environment: the chain the ledger client serves.                    *)
(***************************************************************************)
EventTypes == {"A", "B"}

\* the event type lists handed to Subscribe and Unsubscribe
EventLists == {<<"A">>, <<"B">>, <<"A", "B">>, <<"A", "A">>}

\* the lists among them that the subscriptions made before Run are for
RunEventLists == {<<"A">>, <<"B">>, <<"A", "A">>}

BaseHeight == 100

\* heights a header query can report as the latest sealed block
Heads == {BaseHeight, BaseHeight + MaxWindows * DefaultMaxHeightRange}

\* values of the StartHeight field; 0 is "not set", the other lies one full
\* range above BaseHeight
StartHeights == {0, BaseHeight + DefaultMaxHeightRange}

\* the blocks that carry events, in height order, with the types of their
\* events in block order
ChainBlocks ==
    << [Height |-> BaseHeight + 1, Types |-> <<"A", "B", "A">>],
       [Height |-> BaseHeight + 2, Types |-> <<"A">>],
       [Height |-> BaseHeight + DefaultMaxHeightRange + 1, Types |-> <<"A">>] >>

VARIABLES
    StartHeight,            \* EventPoller.StartHeight
    PollingErrorBehavior,   \* EventPoller.PollingErrorBehavior
    lateAnswers,            \* the client may answer a call whose ctx is cancelled
    subscriptions,          \* EventPoller.subscriptions: type -> list of subscription ids
    nextId,                 \* number of subscriptions created so far
    unsubs,                 \* number of Unsubscribe calls so far
    undrained,              \* subscriptions whose Channel is never read
    lastCall,               \* history: the last Subscribe or Unsubscribe call
    cancelled,              \* ctx has been cancelled
    failures,               \* client calls that failed before ctx was cancelled
    pc,                     \* position of the goroutine running Run
    ticks,                  \* timer firings taken so far
    lastest,                \* Run: height of the lastest header
    result,                 \* Run: the returned error
    lastHeader,             \* checkSubscriptions: height of lastHeader
    latest,                 \* checkSubscriptions: height of latest
    header,                 \* checkSubscriptions: height of header
    err,                    \* checkSubscriptions: err, then Run's err
    newLatest,              \* Run: newLatest (0 stands for a nil header)
    todo,                   \* checkSubscriptions: keys the range loop has not visited
    eventType,              \* pollEvents: eventType
    blockEvents,            \* pollEvents: blockEvents
    pos,                    \* pollEvents: indices of the be, event and sub loops
    rangeSubs,              \* pollEvents: the list the sub loop ranges over
    rangeAlias,             \* that list and the one in the index share their array
    preTick,                \* history: lastest when the current tick began
    cancelSeen,             \* history: a select of pollEvents took its ctx.Done() case
    fetchLog,               \* history: GetEventsForHeightRange calls of the current tick
    received                \* history: events received on each subscription's Channel

vars ==
    << StartHeight, PollingErrorBehavior, lateAnswers, subscriptions, nextId, unsubs,
       undrained, lastCall, cancelled, failures, pc, ticks, lastest, result,
       lastHeader, latest, header, err, newLatest, todo, eventType, blockEvents, pos,
       rangeSubs, rangeAlias, preTick, cancelSeen, fetchLog, received >>

registryVars == << subscriptions, nextId, unsubs, undrained, lastCall >>

configVars == << StartHeight, PollingErrorBehavior, lateAnswers >>

checkVars == << lastHeader, latest, header, newLatest, todo >>

pollVars == << eventType, blockEvents, pos, rangeSubs, rangeAlias >>

(***************************************************************************)
(* Errors.                                                                 *)
(***************************************************************************)
\* fmt.Errorf("msg: %w", e)
Wrap(msg, e) == <<msg>> \o e

\* errors.Is: a nil target matches only a nil error; otherwise the target is
\* looked for along the Unwrap chain of err
ErrorsIs(e, target) ==
    IF target = Nil
    THEN e = target
    ELSE \E i \in 1..Len(e) : SubSeq(e, i, Len(e)) = target

\* ctx.Err()
CtxErr == IF cancelled THEN <<"context canceled">> ELSE Nil

\* the errors a ledger client call can return: an RPC error, or, once the
\* context is cancelled, also the context's error
ClientErrors == {<<"rpc error">>} \cup (IF cancelled THEN {CtxErr} ELSE {})

\* a ledger client call made with a context that is already cancelled fails,
\* unless the client is one that may still answer it; a call whose context
\* is cancelled after the answer arrived is the call's success followed by
\* Cancel
ClientAnswers == ~cancelled \/ lateAnswers

\* a client call fails: always possible once the context is cancelled, and
\* before that as long as the bound on failures allows
ClientFails ==
    /\ cancelled \/ failures < MaxFailures
    /\ failures' = IF cancelled THEN failures ELSE failures + 1

(***************************************************************************)
(* The subscription index.                                                 *)
(***************************************************************************)
\* p.subscriptions[event], the nil slice when the key is absent
SubsOf(index, event) == IF event \in DOMAIN index THEN index[event] ELSE <<>>

\* p.subscriptions[event] = append(p.subscriptions[event], sub)
AppendSub(index, event, id) ==
    [t \in DOMAIN index \cup {event} |->
        IF t = event THEN Append(SubsOf(index, event), id) ELSE index[t]]

\* the loop of Subscribe over events
RECURSIVE SubscribeLoop(_, _, _)
SubscribeLoop(index, events, id) ==
    IF events = <<>>
    THEN index
    ELSE SubscribeLoop(AppendSub(index, Head(events), id), Tail(events), id)

\* RemoveFirst with the cut one element too long: list[i+2:] for list[i+1:]
RemoveFirstAndNext(list, id) ==
    IF \E i \in 1..Len(list) : list[i] = id
    THEN LET i == CHOOSE i \in 1..Len(list) :
                    list[i] = id /\ \A j \in 1..(i - 1) : list[j] # id
         IN  SubSeq(list, 1, i - 1) \o SubSeq(list, i + 2, Len(list))
    ELSE list

\* the list with its first occurrence of id cut out, as the inner loop of
\* Unsubscribe leaves it
RemoveFirst(list, id) ==
    IF \E i \in 1..Len(list) : list[i] = id
    THEN LET i == CHOOSE i \in 1..Len(list) :
                    list[i] = id /\ \A j \in 1..(i - 1) : list[j] # id
         IN  SubSeq(list, 1, i - 1) \o SubSeq(list, i + 1, Len(list))
    ELSE list

\* UnsubscribeOne without the delete of a key whose list became empty
UnsubscribeOneKeepsKey(index, event, id) ==
    IF event \notin DOMAIN index
    THEN index
    ELSE [index EXCEPT ![event] = RemoveFirst(index[event], id)]

\* one iteration of the loop of Unsubscribe
UnsubscribeOne(index, event, id) ==
    IF event \notin DOMAIN index
    THEN index
    ELSE LET list == RemoveFirst(index[event], id)
         IN  IF Len(list) = 0
             THEN [t \in DOMAIN index \ {event} |-> index[t]]
             ELSE [index EXCEPT ![event] = list]

\* the loop of Unsubscribe over events
RECURSIVE UnsubscribeLoop(_, _, _)
UnsubscribeLoop(index, events, id) ==
    IF events = <<>>
    THEN index
    ELSE UnsubscribeLoop(UnsubscribeOne(index, Head(events), id), Tail(events), id)

(***************************************************************************)
(* The ledger client.                                                      *)
(***************************************************************************)
\* the events of one type in one block, each with its place in the block
EventsOfBlock(b, type) ==
    LET idx == SelectSeq([i \in 1..Len(b.Types) |-> i], LAMBDA i : b.Types[i] = type)
    IN  [k \in 1..Len(idx) |-> [Type |-> type, Height |-> b.Height, Index |-> idx[k]]]

\* a successful GetEventsForHeightRange: the blocks of the range, in height
\* order, each with its events of the queried type
EventsForHeightRange(type, start, end) ==
    LET inRange == SelectSeq(ChainBlocks, LAMBDA b : start <= b.Height /\ b.Height <= end)
    IN  [k \in 1..Len(inRange) |->
            [Height |-> inRange[k].Height, Events |-> EventsOfBlock(inRange[k], type)]]

(***************************************************************************)
(* pollEvents: the loops over blockEvents, be.Events and the subscriptions *)
(* of the event's type.                                                    *)
(***************************************************************************)
\* pos when the loops are over
LoopDone == [be |-> 0, ev |-> 0, sub |-> 0]

\* EventAt with the events of a block taken from the last to the first
EventAtReversed(blocks, p) ==
    blocks[p.be].Events[Len(blocks[p.be].Events) - p.ev + 1]

\* the event the loops are at: event of be.Events, be of blockEvents
EventAt(blocks, p) == blocks[p.be].Events[p.ev]

\* the first event at or after event ev of block be whose type has a
\* subscription to send to, with the sub loop at its first element
RECURSIVE NextEvent(_, _, _, _)
NextEvent(blocks, index, be, ev) ==
    IF be > Len(blocks)
    THEN LoopDone
    ELSE IF ev > Len(blocks[be].Events)
         THEN NextEvent(blocks, index, be + 1, 1)
         ELSE IF Len(SubsOf(index, EventAt(blocks, [be |-> be, ev |-> ev]).Type)) = 0
              THEN NextEvent(blocks, index, be, ev + 1)
              ELSE [be |-> be, ev |-> ev, sub |-> 1]

\* the list the sub loop ranges over at position p
RangeOf(blocks, index, p) ==
    IF p = LoopDone THEN <<>> ELSE SubsOf(index, EventAt(blocks, p).Type)

\* the position after a completed send at position p
AfterSend(blocks, index, list, p) ==
    IF p.sub < Len(list)
    THEN [p EXCEPT !.sub = p.sub + 1]
    ELSE NextEvent(blocks, index, p.be, p.ev + 1)

(***************************************************************************)
(* Construction and the calls made before Run.                             *)
(***************************************************************************)
Init ==
    /\ StartHeight \in StartHeights
    /\ PollingErrorBehavior \in {ErrorBehaviorContinue, ErrorBehaviorStop}
    /\ lateAnswers = FALSE
    /\ subscriptions = << >>
    /\ nextId = 0
    /\ unsubs = 0
    /\ undrained = {}
    /\ lastCall = [op |-> "none", id |-> 0, events |-> <<>>, before |-> <<>>]
    /\ cancelled = FALSE
    /\ failures = 0
    /\ pc = "new"
    /\ ticks = 0
    /\ lastest = 0
    /\ result = Nil
    /\ lastHeader = 0
    /\ latest = 0
    /\ header = 0
    /\ err = Nil
    /\ newLatest = 0
    /\ todo = {}
    /\ eventType = ""
    /\ blockEvents = <<>>
    /\ pos = LoopDone
    /\ rangeSubs = <<>>
    /\ rangeAlias = FALSE
    /\ preTick = 0
    /\ cancelSeen = FALSE
    /\ fetchLog = <<>>
    /\ received = <<>>

\* Subscribe(events); drained tells whether the caller reads sub.Channel
Subscribe(events, drained) ==
    /\ pc = "new"
    /\ nextId < MaxSubs
    /\ ~drained => Cardinality(undrained) < MaxUndrained
    /\ nextId' = nextId + 1
    /\ subscriptions' = SubscribeLoop(subscriptions, events, nextId + 1)
    /\ undrained' = IF drained THEN undrained ELSE undrained \cup {nextId + 1}
    /\ lastCall' = [op |-> "Subscribe", id |-> nextId + 1, events |-> events,
                    before |-> subscriptions]
    /\ received' = Append(received, <<>>)
    /\ UNCHANGED << unsubs, configVars, cancelled, failures, pc, ticks, lastest, result, err,
                    checkVars, pollVars, preTick, cancelSeen, fetchLog >>

\* Unsubscribe(id, events)
Unsubscribe(id, events) ==
    /\ pc = "new"
    /\ unsubs < MaxUnsubs
    /\ unsubs' = unsubs + 1
    /\ subscriptions' = UnsubscribeLoop(subscriptions, events, id)
    /\ lastCall' = [op |-> "Unsubscribe", id |-> id, events |-> events,
                    before |-> subscriptions]
    /\ UNCHANGED << nextId, undrained, configVars, cancelled, failures, pc, ticks, lastest,
                    result, err, checkVars, pollVars, preTick, cancelSeen, fetchLog, received >>

\* cancel() of the context handed to Run
Cancel ==
    /\ pc \notin {"new", "done", "fatal"}
    /\ ~cancelled
    /\ cancelled' = TRUE
    /\ UNCHANGED << registryVars, configVars, failures, pc, ticks, lastest, result, err,
                    checkVars, pollVars, preTick, cancelSeen, fetchLog, received >>

(***************************************************************************)
(* Run.                                                                    *)
(***************************************************************************)
\* Run is called
RunCall ==
    /\ pc = "new"
    /\ pc' = "start"
    /\ UNCHANGED << registryVars, configVars, cancelled, failures, ticks, lastest, result, err,
                    checkVars, pollVars, preTick, cancelSeen, fetchLog, received >>

\* startHeader succeeds
StartHeaderOk ==
    /\ pc = "start"
    /\ ClientAnswers
    /\ \/ StartHeight > 0 /\ lastest' = StartHeight
       \/ StartHeight = 0 /\ lastest' \in Heads
    /\ pc' = "select"
    /\ UNCHANGED << registryVars, configVars, cancelled, failures, ticks, result, err,
                    checkVars, pollVars, preTick, cancelSeen, fetchLog, received >>

\* startHeader fails
StartHeaderFail ==
    /\ pc = "start"
    /\ ClientFails
    /\ \E e \in ClientErrors : result' = Wrap("error getting start header", e)
    /\ pc' = "done"
    /\ UNCHANGED << registryVars, configVars, cancelled, ticks, lastest, err,
                    checkVars, pollVars, preTick, cancelSeen, fetchLog, received >>

\* select: case <-ctx.Done()
SelectDone ==
    /\ pc = "select"
    /\ cancelled
    /\ result' = Nil
    /\ pc' = "done"
    /\ UNCHANGED << registryVars, configVars, cancelled, failures, ticks, lastest, err,
                    checkVars, pollVars, preTick, cancelSeen, fetchLog, received >>

\* select: case <-next; the timer is restarted and checkSubscriptions called
SelectNext ==
    /\ pc = "select"
    /\ ticks < MaxTicks
    /\ ticks' = ticks + 1
    /\ lastHeader' = lastest
    /\ preTick' = lastest
    /\ fetchLog' = <<>>
    /\ pc' = "head"
    /\ UNCHANGED << registryVars, configVars, cancelled, failures, lastest, result, err,
                    latest, header, newLatest, todo, pollVars, cancelSeen, received >>

\* the result of checkSubscriptions is a context error: Run returns nil
RunShutdown ==
    /\ pc = "ret"
    /\ ErrorsIs(err, CtxErr)
    /\ result' = Nil
    /\ pc' = "done"
    /\ UNCHANGED << registryVars, configVars, cancelled, failures, ticks, lastest, err,
                    checkVars, pollVars, preTick, cancelSeen, fetchLog, received >>

\* the result of checkSubscriptions is ErrAbort: Run returns it
RunAbort ==
    /\ pc = "ret"
    /\ ~ErrorsIs(err, CtxErr)
    /\ ErrorsIs(err, ErrAbort)
    /\ result' = err
    /\ pc' = "done"
    /\ UNCHANGED << registryVars, configVars, cancelled, failures, ticks, lastest, err,
                    checkVars, pollVars, preTick, cancelSeen, fetchLog, received >>

\* RunSkip with a return of the error in place of the continue
RunSkipReturns ==
    /\ pc = "ret"
    /\ ~ErrorsIs(err, CtxErr)
    /\ ~ErrorsIs(err, ErrAbort)
    /\ err # Nil
    /\ result' = err
    /\ pc' = "done"
    /\ UNCHANGED << registryVars, configVars, cancelled, failures, ticks, lastest, err,
                    checkVars, pollVars, preTick, cancelSeen, fetchLog, received >>

\* any other error: log and continue without updating lastest
RunSkip ==
    /\ pc = "ret"
    /\ ~ErrorsIs(err, CtxErr)
    /\ ~ErrorsIs(err, ErrAbort)
    /\ err # Nil
    /\ pc' = "select"
    /\ UNCHANGED << registryVars, configVars, cancelled, failures, ticks, lastest, result, err,
                    checkVars, pollVars, preTick, cancelSeen, fetchLog, received >>

\* no error: lastest = newLatest
RunAdvance ==
    /\ pc = "ret"
    /\ ~ErrorsIs(err, CtxErr)
    /\ ~ErrorsIs(err, ErrAbort)
    /\ err = Nil
    /\ lastest' = newLatest
    /\ pc' = "select"
    /\ UNCHANGED << registryVars, configVars, cancelled, failures, ticks, result, err,
                    checkVars, pollVars, preTick, cancelSeen, fetchLog, received >>

(***************************************************************************)
(* checkSubscriptions.                                                     *)
(***************************************************************************)
\* MaxHeight one too high
MaxHeightOffByOne(last) == last + DefaultMaxHeightRange + 1

\* maxHeight := lastHeader.Height + DefaultMaxHeightRange
MaxHeight(last) == last + DefaultMaxHeightRange

\* whether the range up to head has to be broken up: latest.Height > maxHeight
NeedsLookup(last, head) == head > MaxHeight(last)

\* PollErrorOutcome with the configured behaviour not consulted
PollErrorOutcomeIgnoresPolicy(ctxErr, behavior) ==
    IF ctxErr # Nil THEN "shutdown" ELSE "continue"

\* PollErrorOutcome with every error treated as under ErrorBehaviorStop
PollErrorOutcomeAlwaysAborts(ctxErr, behavior) ==
    IF ctxErr # Nil THEN "shutdown" ELSE "abort"

\* what happens to an error of pollEvents: the context's error is returned
\* when the context is done, else ErrAbort under ErrorBehaviorStop, else the
\* error is logged and the loop goes on
PollErrorOutcome(ctxErr, behavior) ==
    IF ctxErr # Nil
    THEN "shutdown"
    ELSE IF behavior = ErrorBehaviorStop THEN "abort" ELSE "continue"

\* GetLatestBlockHeader succeeds
LatestHeaderOk ==
    /\ pc = "head"
    /\ ClientAnswers
    /\ latest' \in Heads
    /\ pc' = "chunk"
    /\ UNCHANGED << registryVars, configVars, cancelled, failures, ticks, lastest, result, err,
                    lastHeader, header, newLatest, todo, pollVars, preTick, cancelSeen,
                    fetchLog, received >>

\* GetLatestBlockHeader fails
LatestHeaderFail ==
    /\ pc = "head"
    /\ ClientFails
    /\ \E e \in ClientErrors : err' = Wrap("error getting latest header", e)
    /\ newLatest' = 0
    /\ pc' = "ret"
    /\ UNCHANGED << registryVars, configVars, cancelled, ticks, lastest, result,
                    lastHeader, latest, header, todo, pollVars, preTick, cancelSeen, fetchLog,
                    received >>

\* top of the for loop: header is latest, or the header at maxHeight when the
\* range is too large; then the range loop over p.subscriptions starts
Chunk ==
    /\ pc = "chunk"
    /\ NeedsLookup(lastHeader, latest) => ClientAnswers
    /\ header' = IF NeedsLookup(lastHeader, latest) THEN MaxHeight(lastHeader) ELSE latest
    /\ todo' = DOMAIN subscriptions
    /\ pc' = "range"
    /\ UNCHANGED << registryVars, configVars, cancelled, failures, ticks, lastest, result, err,
                    lastHeader, latest, newLatest, pollVars, preTick, cancelSeen,
                    fetchLog, received >>

\* GetBlockHeaderByHeight(maxHeight) fails
ChunkLookupFail ==
    /\ pc = "chunk"
    /\ ClientFails
    /\ NeedsLookup(lastHeader, latest)
    /\ \E e \in ClientErrors : err' = Wrap("error getting header for height", e)
    /\ newLatest' = 0
    /\ pc' = "ret"
    /\ UNCHANGED << registryVars, configVars, cancelled, ticks, lastest, result,
                    lastHeader, latest, header, todo, pollVars, preTick, cancelSeen, fetchLog,
                    received >>

\* the next event type of the range loop: pollEvents is called and its
\* GetEventsForHeightRange succeeds; with nothing to send pollEvents returns
\* nil at once
FetchOk ==
    /\ pc = "range"
    /\ ClientAnswers
    /\ \E type \in todo :
        LET blocks == EventsForHeightRange(type, lastHeader + 1, header)
            first == NextEvent(blocks, subscriptions, 1, 1)
        IN  /\ todo' = todo \ {type}
            /\ eventType' = type
            /\ blockEvents' = blocks
            /\ pos' = first
            /\ rangeSubs' = RangeOf(blocks, subscriptions, first)
            /\ rangeAlias' = (first # LoopDone)
            /\ fetchLog' = Append(fetchLog, [Type |-> type, StartHeight |-> lastHeader + 1,
                                             EndHeight |-> header, ok |-> TRUE])
            /\ pc' = IF first = LoopDone THEN "range" ELSE "send"
            /\ err' = IF first = LoopDone THEN Nil ELSE err
    /\ UNCHANGED << registryVars, configVars, cancelled, failures, ticks, lastest, result,
                    lastHeader, latest, header, newLatest, preTick, cancelSeen, received >>

\* the next event type of the range loop: GetEventsForHeightRange fails and
\* pollEvents returns the error
FetchFail ==
    /\ pc = "range"
    /\ ClientFails
    /\ \E type \in todo :
        /\ todo' = todo \ {type}
        /\ eventType' = type
        /\ fetchLog' = Append(fetchLog, [Type |-> type, StartHeight |-> lastHeader + 1,
                                         EndHeight |-> header, ok |-> FALSE])
    /\ \E e \in ClientErrors : err' = e
    /\ pc' = "pollerr"
    /\ UNCHANGED << registryVars, configVars, cancelled, ticks, lastest, result,
                    lastHeader, latest, header, newLatest, blockEvents, pos, rangeSubs,
                    rangeAlias, preTick, cancelSeen, received >>

\* pollEvents returned an error
PollError ==
    /\ pc = "pollerr"
    /\ LET outcome == PollErrorOutcome(CtxErr, PollingErrorBehavior)
       IN  \/ /\ outcome = "shutdown"
              /\ err' = CtxErr
              /\ newLatest' = 0
              /\ pc' = "ret"
           \/ /\ outcome = "abort"
              /\ err' = ErrAbort
              /\ newLatest' = 0
              /\ pc' = "ret"
           \/ /\ outcome = "continue"
              /\ UNCHANGED << err, newLatest >>
              /\ pc' = "range"
    /\ UNCHANGED << registryVars, configVars, cancelled, failures, ticks, lastest, result,
                    lastHeader, latest, header, todo, pollVars, preTick, cancelSeen, fetchLog,
                    received >>

\* the range loop is over: break and return header when it is latest, else
\* go round the for loop with lastHeader = header
EndRange ==
    /\ pc = "range"
    /\ todo = {}
    /\ IF header = latest
       THEN /\ newLatest' = header
            /\ err' = Nil
            /\ pc' = "ret"
            /\ UNCHANGED lastHeader
       ELSE /\ lastHeader' = header
            /\ pc' = "chunk"
            /\ UNCHANGED << newLatest, err >>
    /\ UNCHANGED << registryVars, configVars, cancelled, failures, ticks, lastest, result,
                    latest, header, todo, pollVars, preTick, cancelSeen, fetchLog, received >>

(***************************************************************************)
(* pollEvents: the select of the sub loop.                                 *)
(***************************************************************************)
\* what the subscriber receives: the event, and when it was sent
Delivery(p) ==
    [event |-> EventAt(blockEvents, p), tick |-> ticks,
     fetch |-> Len(fetchLog), be |-> p.be, ev |-> p.ev]

\* SendEvent as a send that does not block: the event is dropped when the
\* subscriber is not reading, and the loops go on
SendEventOrDrop ==
    /\ pc = "send"
    /\ LET sub == rangeSubs[pos.sub]
           after == AfterSend(blockEvents, subscriptions, rangeSubs, pos)
       IN  /\ received' = IF sub \in undrained
                          THEN received
                          ELSE [received EXCEPT ![sub] = Append(@, Delivery(pos))]
           /\ pos' = after
           /\ rangeSubs' = IF after.sub = 1
                           THEN RangeOf(blockEvents, subscriptions, after)
                           ELSE rangeSubs
           /\ rangeAlias' = IF after.sub = 1 THEN TRUE ELSE (after # LoopDone /\ rangeAlias)
           /\ pc' = IF after = LoopDone THEN "range" ELSE "send"
           /\ err' = IF after = LoopDone THEN Nil ELSE err
    /\ UNCHANGED << registryVars, configVars, cancelled, failures, ticks, lastest, result,
                    checkVars, eventType, blockEvents, preTick, cancelSeen, fetchLog >>

\* case sub.Channel <- subEvent: the subscriber takes the event; after the
\* last send pollEvents returns nil
SendEvent ==
    /\ pc = "send"
    /\ LET sub == rangeSubs[pos.sub]
           after == AfterSend(blockEvents, subscriptions, rangeSubs, pos)
       IN  /\ sub \notin undrained
           /\ received' = [received EXCEPT ![sub] = Append(@, Delivery(pos))]
           /\ pos' = after
           /\ rangeSubs' = IF after.sub = 1
                           THEN RangeOf(blockEvents, subscriptions, after)
                           ELSE rangeSubs
           /\ rangeAlias' = IF after.sub = 1 THEN TRUE ELSE (after # LoopDone /\ rangeAlias)
           /\ pc' = IF after = LoopDone THEN "range" ELSE "send"
           /\ err' = IF after = LoopDone THEN Nil ELSE err
    /\ UNCHANGED << registryVars, configVars, cancelled, failures, ticks, lastest, result,
                    checkVars, eventType, blockEvents, preTick, cancelSeen, fetchLog >>

\* the select without its ctx.Done() case: a plain blocking send
SendNeverCancelled == FALSE /\ UNCHANGED vars

\* case <-ctx.Done(): pollEvents returns nil
SendCancelled ==
    /\ pc = "send"
    /\ cancelled
    /\ pos' = LoopDone
    /\ rangeSubs' = <<>>
    /\ rangeAlias' = FALSE
    /\ err' = Nil
    /\ cancelSeen' = TRUE
    /\ pc' = "range"
    /\ UNCHANGED << registryVars, configVars, cancelled, failures, ticks, lastest, result,
                    checkVars, eventType, blockEvents, preTick, fetchLog, received >>

(***************************************************************************)
(* The specifications.                                                     *)
(***************************************************************************)
RunStep ==
    \/ StartHeaderOk
    \/ StartHeaderFail
    \/ SelectDone
    \/ SelectNext
    \/ RunShutdown
    \/ RunAbort
    \/ RunSkip
    \/ RunAdvance
    \/ LatestHeaderOk
    \/ LatestHeaderFail
    \/ Chunk
    \/ ChunkLookupFail
    \/ FetchOk
    \/ FetchFail
    \/ PollError
    \/ EndRange
    \/ SendEvent
    \/ SendCancelled

Next ==
    \/ \E events \in RunEventLists, drained \in BOOLEAN : Subscribe(events, drained)
    \/ RunCall
    \/ Cancel
    \/ RunStep

Spec == Init /\ [][Next]_vars

(***************************************************************************)
(* The poller with a ledger client that may still answer a call made with  *)
(* a cancelled context: the client is handed to NewEventPoller, and the    *)
(* poller does not look at the context before it calls the client.         *)
(***************************************************************************)
\* the poller is constructed with such a client
LateClient ==
    /\ pc = "new"
    /\ nextId = 0
    /\ ~lateAnswers
    /\ lateAnswers' = TRUE
    /\ UNCHANGED << StartHeight, PollingErrorBehavior, registryVars, cancelled, failures, pc,
                    ticks, lastest, result, err, checkVars, pollVars, preTick, cancelSeen,
                    fetchLog, received >>

LateNext == LateClient \/ Next

LateSpec == Init /\ [][LateNext]_vars

(***************************************************************************)
(* Subscribe and Unsubscribe called from other goroutines while Run is     *)
(* running.  Nothing synchronises them with Run: a call takes effect as a  *)
(* whole between two steps of Run, or the runtime finds the map read and   *)
(* written at once and ends the process.  The range over the map and the   *)
(* range over a list of it, both under way in Run, see the call as Go      *)
(* defines: a key deleted before it is reached is not produced, a key      *)
(* added may be produced or not, and a list is ranged through the slice    *)
(* taken when its range began, over an array the index may still write.    *)
(***************************************************************************)
\* the range over p.subscriptions is under way
MapRangeLive == pc \in {"range", "send", "pollerr"}

\* the type whose list the sub loop ranges over
RangedType == IF pc = "send" THEN EventAt(blockEvents, pos).Type ELSE ""

\* the ranged slice after append(list[:i], list[i+1:]...) on the array it
\* shares with list: the elements behind i move one place down, the last
\* place keeps its element
ViewAfterRemove(view, list, id) ==
    IF \E i \in 1..Len(list) : list[i] = id
    THEN LET i == CHOOSE i \in 1..Len(list) :
                    list[i] = id /\ \A j \in 1..(i - 1) : list[j] # id
         IN  [k \in 1..Len(view) |->
                 IF i <= k /\ k <= Len(list) - 1 THEN list[k + 1] ELSE view[k]]
    ELSE view

\* the ranged slice, and whether it still shares its array with the index,
\* after the loop of Unsubscribe; a deleted key gives the array up
RECURSIVE UnsubscribeView(_, _, _, _, _, _)
UnsubscribeView(index, view, alias, events, id, type) ==
    IF events = <<>>
    THEN [view |-> view, alias |-> alias]
    ELSE LET event == Head(events)
             next == UnsubscribeOne(index, event, id)
         IN  IF event = type /\ alias /\ event \in DOMAIN index
             THEN UnsubscribeView(next, ViewAfterRemove(view, index[event], id),
                                  event \in DOMAIN next, Tail(events), id, type)
             ELSE UnsubscribeView(next, view, alias, Tail(events), id, type)

\* the same after the loop of Subscribe: an append within the shared array
\* writes the place behind the list's end, which the ranged slice may
\* reach; an append at or behind the ranged slice's end writes in place or
\* moves the list to a new array, as the capacity has it
RECURSIVE SubscribeViews(_, _, _, _, _, _)
SubscribeViews(index, view, alias, events, id, type) ==
    IF events = <<>>
    THEN {[view |-> view, alias |-> alias]}
    ELSE LET event == Head(events)
             next == AppendSub(index, event, id)
             len == Len(SubsOf(index, event))
         IN  IF event # type \/ ~alias
             THEN SubscribeViews(next, view, alias, Tail(events), id, type)
             ELSE IF len < Len(view)
                  THEN SubscribeViews(next, [view EXCEPT ![len + 1] = id], TRUE,
                                      Tail(events), id, type)
                  ELSE SubscribeViews(next, view, TRUE, Tail(events), id, type)
                       \cup SubscribeViews(next, view, FALSE, Tail(events), id, type)

\* Subscribe(events) while Run is running
SubscribeDuringRun(events, drained) ==
    /\ pc \notin {"new", "done", "fatal"}
    /\ nextId < MaxSubs
    /\ ~drained => Cardinality(undrained) < MaxUndrained
    /\ nextId' = nextId + 1
    /\ subscriptions' = SubscribeLoop(subscriptions, events, nextId + 1)
    /\ undrained' = IF drained THEN undrained ELSE undrained \cup {nextId + 1}
    /\ received' = Append(received, <<>>)
    /\ lastCall' = [op |-> "Subscribe", id |-> nextId + 1, events |-> events,
                    before |-> subscriptions]
    /\ IF MapRangeLive
       THEN \E added \in SUBSET (DOMAIN subscriptions' \ DOMAIN subscriptions) :
                todo' = todo \cup added
       ELSE todo' = todo
    /\ \E v \in SubscribeViews(subscriptions, rangeSubs, rangeAlias, events, nextId + 1,
                                RangedType) :
           /\ rangeSubs' = v.view
           /\ rangeAlias' = v.alias
    /\ UNCHANGED << unsubs, configVars, cancelled, failures, pc, ticks, lastest, result, err,
                    lastHeader, latest, header, newLatest, eventType, blockEvents, pos,
                    preTick, cancelSeen, fetchLog >>

\* Unsubscribe(id, events) while Run is running
UnsubscribeDuringRun(id, events) ==
    /\ pc \notin {"new", "done", "fatal"}
    /\ unsubs < MaxUnsubs
    /\ unsubs' = unsubs + 1
    /\ subscriptions' = UnsubscribeLoop(subscriptions, events, id)
    /\ lastCall' = [op |-> "Unsubscribe", id |-> id, events |-> events,
                    before |-> subscriptions]
    /\ todo' = IF MapRangeLive THEN todo \cap DOMAIN subscriptions' ELSE todo
    /\ LET v == UnsubscribeView(subscriptions, rangeSubs, rangeAlias, events, id, RangedType)
       IN  /\ rangeSubs' = v.view
           /\ rangeAlias' = v.alias
    /\ UNCHANGED << nextId, undrained, configVars, cancelled, failures, pc, ticks, lastest,
                    result, err, lastHeader, latest, header, newLatest, eventType,
                    blockEvents, pos, preTick, cancelSeen, fetchLog, received >>

\* a Subscribe or Unsubscribe call writes the map while Run reads it or
\* ranges over it: the runtime reports the concurrent map access and the
\* process ends
ConcurrentMapFatal ==
    /\ pc \in {"chunk", "range", "send"}
    /\ nextId < MaxSubs \/ unsubs < MaxUnsubs
    /\ pc' = "fatal"
    /\ UNCHANGED << registryVars, configVars, cancelled, failures, ticks, lastest, result, err,
                    checkVars, pollVars, preTick, cancelSeen, fetchLog, received >>

ConcurrentNext ==
    \/ Next
    \/ \E events \in RunEventLists, drained \in BOOLEAN : SubscribeDuringRun(events, drained)
    \/ \E id \in 1..nextId, events \in EventLists : UnsubscribeDuringRun(id, events)
    \/ ConcurrentMapFatal

ConcurrentSpec == Init /\ [][ConcurrentNext]_vars

(***************************************************************************)
(* The subscription index on its own: Subscribe and Unsubscribe calls in   *)
(* any order on a poller whose Run has not been called.                    *)
(***************************************************************************)
\* the ids handed to Unsubscribe: those of the subscriptions, made or not
SubscriptionIds == 1..MaxSubs

RegistryNext ==
    \/ \E events \in EventLists, drained \in BOOLEAN : Subscribe(events, drained)
    \/ \E id \in SubscriptionIds, events \in EventLists : Unsubscribe(id, events)

RegistrySpec == Init /\ [][RegistryNext]_vars

(***************************************************************************)
(* Fairness: the goroutine running Run keeps being scheduled and the       *)
(* ledger client answers every call; a select with several ready cases     *)
(* picks among them at random, so the ctx.Done() case of Run's select is   *)
(* not passed over for ever.                                               *)
(***************************************************************************)
FairSpec == Spec /\ WF_vars(RunStep) /\ SF_vars(SelectDone)

(***************************************************************************)
(* Definitions the properties share.                                       *)
(***************************************************************************)
\* checkSubscriptions is running or has just returned to Run
InTick == pc \in {"chunk", "range", "send", "pollerr", "ret"}

\* the head query of the current tick succeeded
HeadKnown == pc \in {"chunk", "range", "send", "pollerr"} \/ (pc = "ret" /\ newLatest # 0)

AllFetchesOk == \A i \in 1..Len(fetchLog) : fetchLog[i].ok

\* the (StartHeight, EndHeight) ranges fetched for one type in the current tick
RangesOf(type) ==
    LET calls == SelectSeq(fetchLog, LAMBDA c : c.Type = type)
    IN  [i \in 1..Len(calls) |-> <<calls[i].StartHeight, calls[i].EndHeight>>]

Min(a, b) == IF a < b THEN a ELSE b

\* the ranges the chunking rule prescribes between last and head
RECURSIVE ExpectedRanges(_, _)
ExpectedRanges(last, head) ==
    IF last >= head
    THEN <<>>
    ELSE LET end == Min(last + DefaultMaxHeightRange, head)
         IN  <<  <<last + 1, end>> >> \o ExpectedRanges(end, head)

IsPrefix(s, t) == Len(s) <= Len(t) /\ SubSeq(t, 1, Len(s)) = s

\* the subscriptions registered in the index for a type
Registered(type) == {SubsOf(subscriptions, type)[i] : i \in 1..Len(SubsOf(subscriptions, type))}

(***************************************************************************)
(* Run's return (C1, C3, C4) and the reference height (C2).                *)
(***************************************************************************)
\* C1: Run returns only when the context is cancelled, when the stop policy
\* aborted the run after a failed events fetch, or when the startup height
\* lookup failed; in particular it returns nil only when the context is
\* cancelled, and not after a tick in which every call succeeded.
C1_ReturnsOnlyOnCancelAbortOrStartup ==
    pc = "done" =>
        \/ cancelled
        \/ /\ result = ErrAbort
           /\ PollingErrorBehavior = ErrorBehaviorStop
           /\ ~AllFetchesOk
        \/ /\ ticks = 0
           /\ result # Nil

\* C2: whenever lastest changes at the end of a tick, every
\* GetEventsForHeightRange call of that tick succeeded; a tick with a failed
\* call leaves lastest at its pre-tick value.  Stated for the ticks whose
\* chain head is above the pre-tick reference height.
C2_AdvanceOnlyAfterFullSuccess ==
    [][(pc = "ret" /\ latest > preTick /\ lastest' # lastest) => AllFetchesOk]_vars

\* C3: under ErrorBehaviorStop, once a GetEventsForHeightRange call has
\* failed, no further fetch and no further delivery is made in the tick, no
\* other tick is run, lastest keeps its pre-tick value, and Run returns
\* ErrAbort (or nil, and that only when the context was cancelled as well).
C3_StopAborts ==
    (PollingErrorBehavior = ErrorBehaviorStop /\ ~AllFetchesOk) =>
        /\ pc \in {"pollerr", "ret", "done"}
        /\ \A i \in 1..Len(fetchLog) : fetchLog[i].ok <=> i < Len(fetchLog)
        /\ \A s \in 1..nextId : \A k \in 1..Len(received[s]) :
               received[s][k].tick = ticks => received[s][k].fetch < Len(fetchLog)
        /\ lastest = preTick
        /\ pc = "done" => (result = ErrAbort \/ (cancelled /\ result = Nil))

\* C3's case: the fetch for the second of two subscribed types fails, the
\* context is never cancelled, and Run has returned ErrAbort
C3_Witness ==
    /\ pc = "done"
    /\ ~cancelled
    /\ PollingErrorBehavior = ErrorBehaviorStop
    /\ result = ErrAbort
    /\ Len(fetchLog) = 2
    /\ fetchLog[1].ok
    /\ ~fetchLog[2].ok
    /\ fetchLog[1].Type # fetchLog[2].Type

\* C4: whenever the context was cancelled before Run returned, Run's return
\* value is nil.
C4_CancelIsNeverAnError ==
    (pc = "done" /\ cancelled) => result = Nil

(***************************************************************************)
(* The height ranges of a tick (C5, C6, C7).                               *)
(***************************************************************************)
\* C5: in a tick with head > last and no failed call, the ranges fetched for
\* each subscribed type are (last+1, min(last+250, head)), then
\* (prevEnd+1, min(prevEnd+250, head)), and so on: never more ranges than
\* that, and exactly those when checkSubscriptions returns; they start at
\* last+1, follow each other without gap or overlap, span at most 250
\* heights each and end at head.
C5_RangesCoverLastToHead ==
    (HeadKnown /\ AllFetchesOk /\ latest > preTick) =>
        \A type \in DOMAIN subscriptions :
            LET r == RangesOf(type)
                expected == ExpectedRanges(preTick, latest)
            IN  /\ IsPrefix(r, expected)
                /\ pc = "ret" => r = expected
                /\ \A i \in 1..Len(r) :
                       /\ r[i][1] <= r[i][2]
                       /\ r[i][2] - r[i][1] + 1 <= DefaultMaxHeightRange
                       /\ r[i][1] = IF i = 1 THEN preTick + 1 ELSE r[i - 1][2] + 1
                /\ pc = "ret" => (r # <<>> /\ r[Len(r)][2] = latest)

\* C5's example: last = 100 and head = 600 give exactly (101,350), (351,600)
C5_Witness ==
    /\ pc = "ret"
    /\ newLatest # 0
    /\ AllFetchesOk
    /\ preTick = BaseHeight
    /\ latest = BaseHeight + 2 * DefaultMaxHeightRange
    /\ "A" \in DOMAIN subscriptions
    /\ RangesOf("A") =
           << <<BaseHeight + 1, BaseHeight + DefaultMaxHeightRange>>,
              <<BaseHeight + DefaultMaxHeightRange + 1,
                BaseHeight + 2 * DefaultMaxHeightRange>> >>

\* C6: in a tick whose head query returns a height below the reference
\* height no GetEventsForHeightRange call is issued (so none with
\* start > end), and the reference height never ends a tick below the
\* value it had when the tick began.
C6_NoFetchBelowReference ==
    /\ (HeadKnown /\ latest < preTick) => fetchLog = <<>>
    /\ ticks > 0 => lastest >= preTick

\* C7: in a tick whose head query returns the reference height itself no
\* GetEventsForHeightRange call is issued, nothing is delivered and the
\* reference height stays the same.
C7_NoFetchAtReference ==
    (HeadKnown /\ latest = preTick) =>
        /\ fetchLog = <<>>
        /\ \A s \in 1..nextId : \A k \in 1..Len(received[s]) :
               received[s][k].tick # ticks
        /\ lastest = preTick

(***************************************************************************)
(* Delivery (C8, C9, C10).                                                 *)
(***************************************************************************)
\* the select of the sub loop is at a subscription whose Channel is never read
BlockedSend == pc = "send" /\ rangeSubs[pos.sub] \in undrained

\* C8: a subscription whose Channel is never read receives nothing, and
\* once the context is cancelled while a send to such a subscription is
\* blocked, Run eventually returns nil.
C8_CancelUnblocksSend ==
    /\ [](\A s \in undrained : received[s] = <<>>)
    /\ (cancelled /\ BlockedSend) ~> (pc = "done" /\ result = Nil)

\* C8's case: Run has returned nil after the context was cancelled, and a
\* fetched event was due first to a subscription whose Channel is never read
C8_Witness ==
    /\ pc = "done"
    /\ cancelled
    /\ result = Nil
    /\ \E f \in 1..Len(fetchLog) :
          /\ fetchLog[f].ok
          /\ LET c == fetchLog[f]
                 first == NextEvent(EventsForHeightRange(c.Type, c.StartHeight, c.EndHeight),
                                    subscriptions, 1, 1)
             IN  /\ first # LoopDone
                 /\ SubsOf(subscriptions, c.Type)[1] \in undrained
    /\ \A s \in undrained : received[s] = <<>>

\* the number of times subscription s was sent event ev of block be of the
\* answer to call f of the current tick
TimesSent(s, f, be, ev) ==
    Cardinality({k \in 1..Len(received[s]) :
                    /\ received[s][k].tick = ticks
                    /\ received[s][k].fetch = f
                    /\ received[s][k].be = be
                    /\ received[s][k].ev = ev})

\* C9: while the context is not cancelled, once pollEvents has returned from
\* a successful fetch, every event of the answer has been sent exactly once
\* to each subscription registered for the event's type and to no other.
C9_FanOutExactlyOnce ==
    ~cancelled =>
        \A f \in 1..Len(fetchLog) :
            (fetchLog[f].ok /\ (f < Len(fetchLog) \/ pc # "send")) =>
                LET c == fetchLog[f]
                    blocks == EventsForHeightRange(c.Type, c.StartHeight, c.EndHeight)
                IN  \A be \in 1..Len(blocks) : \A ev \in 1..Len(blocks[be].Events) :
                        \A s \in 1..nextId :
                            TimesSent(s, f, be, ev) =
                                IF s \in Registered(blocks[be].Events[ev].Type) THEN 1 ELSE 0

\* delivery d was sent no later than delivery e, by the place of their
\* events in the answers of the client
SourceOrder(d, e) ==
    \/ d.fetch < e.fetch
    \/ d.fetch = e.fetch /\ d.be < e.be
    \/ d.fetch = e.fetch /\ d.be = e.be /\ d.ev <= e.ev

\* the event of d is not after the event of e on the chain
ChainOrder(d, e) ==
    \/ d.event.Height < e.event.Height
    \/ d.event.Height = e.event.Height /\ d.event.Index <= e.event.Index

\* C10: the events of one type that a subscription receives within a tick
\* arrive in the order the client returned them, block by block and in
\* block order within a block, those of an earlier range first.
C10_DeliveryInSourceOrder ==
    \A s \in 1..nextId : \A i, j \in 1..Len(received[s]) :
        LET d == received[s][i]
            e == received[s][j]
        IN  (i < j /\ d.tick = e.tick /\ d.event.Type = e.event.Type) =>
                /\ SourceOrder(d, e)
                /\ ChainOrder(d, e)
                /\ d.tick = ticks =>
                       fetchLog[d.fetch].StartHeight <= fetchLog[e.fetch].StartHeight

\* C10's case: a subscription has received, in one tick, two events of one
\* block, an event of a later block and an event of a later range
C10_Witness ==
    \E s \in 1..nextId : \E i, j, k, l \in 1..Len(received[s]) :
        LET r == received[s]
        IN  /\ i < j /\ j < k /\ k < l
            /\ r[i].tick = r[l].tick
            /\ r[i].event.Height = r[j].event.Height
            /\ r[i].event.Index < r[j].event.Index
            /\ r[j].event.Height < r[k].event.Height
            /\ r[k].fetch < r[l].fetch

(***************************************************************************)
(* The subscription index (C11, C12, C19), under RegistrySpec.             *)
(***************************************************************************)
\* the elements of a list
Elems(list) == {list[i] : i \in 1..Len(list)}

\* C11: no subscription occurs twice in the index list of an event type,
\* whatever Subscribe and Unsubscribe calls were made, also when the list
\* handed to Subscribe names the same type more than once.
C11_SubscribeDeduplicates ==
    \A t \in DOMAIN subscriptions :
        \A i, j \in 1..Len(subscriptions[t]) :
            i # j => subscriptions[t][i] # subscriptions[t][j]

\* C12: an Unsubscribe(id, types) call that directly follows the
\* Subscribe(types) call which made the subscription id leaves the index as
\* it was before that Subscribe: the same keys with the same lists, the
\* subscription in no list and no key with an empty list.
C12_SubscribeUnsubscribeRoundTrip ==
    [][(/\ lastCall.op = "Subscribe"
        /\ lastCall'.op = "Unsubscribe"
        /\ lastCall'.id = lastCall.id
        /\ lastCall'.events = lastCall.events)
       => /\ DOMAIN subscriptions' = DOMAIN lastCall.before
          /\ \A t \in DOMAIN subscriptions' :
                 /\ subscriptions'[t] = lastCall.before[t]
                 /\ subscriptions'[t] # <<>>
                 /\ lastCall.id \notin Elems(subscriptions'[t])]_vars

\* C12's case: a second subscription was made for the type A named twice
\* and removed again with the same list, A having another subscriber
C12_Witness ==
    /\ lastCall.op = "Unsubscribe"
    /\ lastCall.id = nextId
    /\ nextId = 2
    /\ lastCall.events = <<"A", "A">>
    /\ lastCall.before = SubscribeLoop(subscriptions, lastCall.events, nextId)
    /\ "A" \in DOMAIN subscriptions
    /\ \A t \in DOMAIN subscriptions : nextId \notin Elems(subscriptions[t])

\* a list without the entries of one subscription
Others(list, id) == SelectSeq(list, LAMBDA x : x # id)

\* C19: an Unsubscribe(id, types) call leaves the list of every type that is
\* not listed as it was, keeps every other subscription of a listed type
\* registered in the same order, changes nothing for a listed type where id
\* is not registered (a type that is no key stays no key), and touches
\* nothing but the index: no subscription, channel or delivery changes.
C19_UnsubscribeFrame ==
    [][unsubs' # unsubs =>
        LET id == lastCall'.id
            listed == Elems(lastCall'.events)
        IN  /\ \A t \in EventTypes \ listed :
                   /\ t \in DOMAIN subscriptions' <=> t \in DOMAIN subscriptions
                   /\ SubsOf(subscriptions', t) = SubsOf(subscriptions, t)
            /\ \A t \in listed :
                   /\ Others(SubsOf(subscriptions', t), id) =
                          Others(SubsOf(subscriptions, t), id)
                   /\ id \notin Elems(SubsOf(subscriptions, t)) =>
                          /\ t \in DOMAIN subscriptions' <=> t \in DOMAIN subscriptions
                          /\ SubsOf(subscriptions', t) = SubsOf(subscriptions, t)
            /\ UNCHANGED << nextId, undrained, received, cancelled, pc >>]_vars

\* C19's case: subscription 1 is removed from A, where subscription 2 stays,
\* and keeps its entry for B, which was not listed
C19_Witness ==
    /\ lastCall.op = "Unsubscribe"
    /\ lastCall.id = 1
    /\ lastCall.events = <<"A">>
    /\ SubsOf(lastCall.before, "A") = <<1, 2>>
    /\ SubsOf(lastCall.before, "B") = <<1>>
    /\ SubsOf(subscriptions, "A") = <<2>>
    /\ SubsOf(subscriptions, "B") = <<1>>

(***************************************************************************)
(* A failed head query (C13).                                              *)
(***************************************************************************)
\* checkSubscriptions has returned the error of a GetLatestBlockHeader call
\* that failed with an RPC error
HeadQueryFailed ==
    pc = "ret" /\ err = Wrap("error getting latest header", <<"rpc error">>)

\* C13: a GetLatestBlockHeader call that fails while the context is not
\* cancelled makes checkSubscriptions return its error; the tick has then
\* fetched and delivered nothing, Run goes back to its select without
\* returning and with lastest unchanged, every tick starts from lastest, and
\* the first range fetched for a type in a tick starts at that height + 1.
C13_HeadFailureSkipsTick ==
    /\ [][(pc = "head" /\ ~cancelled /\ pc' = "ret") => HeadQueryFailed']_vars
    /\ [](HeadQueryFailed =>
            /\ fetchLog = <<>>
            /\ \A s \in 1..nextId : \A k \in 1..Len(received[s]) :
                   received[s][k].tick # ticks
            /\ lastest = preTick)
    /\ [][HeadQueryFailed =>
            /\ pc' \in {"ret", "select"}
            /\ lastest' = lastest
            /\ result' = result]_vars
    /\ [][(pc = "select" /\ pc' = "head") =>
            (preTick' = lastest /\ lastHeader' = lastest)]_vars
    /\ [](\A type \in EventTypes :
            RangesOf(type) # <<>> => RangesOf(type)[1][1] = preTick + 1)

\* C13's case: the head query of the first tick failed, the context is not
\* cancelled, and the second tick is sending the events of its first range,
\* which starts at the height Run started from + 1
C13_Witness ==
    /\ ticks = 2
    /\ ~cancelled
    /\ failures = 1
    /\ pc = "send"
    /\ err = Wrap("error getting latest header", <<"rpc error">>)
    /\ Len(fetchLog) = 1
    /\ fetchLog[1].StartHeight = lastest + 1
    /\ lastest = BaseHeight

(***************************************************************************)
(* Cancellation seen by a send (C16), under LateSpec.                      *)
(***************************************************************************)
\* C16: once a select of the sub loop has taken its ctx.Done() case, no
\* subscription receives anything more in the run: not the other events of
\* the fetch, not the other subscribers of the event, not the events of the
\* other types and ranges of the tick.
C16_NoSendAfterCancelSeen ==
    [][cancelSeen => received' = received]_vars

(***************************************************************************)
(* A failed fetch under ErrorBehaviorContinue (C17).                       *)
(***************************************************************************)
\* checkSubscriptions has returned the error of a GetBlockHeaderByHeight call
LookupFailed ==
    pc = "ret" /\ err # Nil /\ Head(err) = "error getting header for height"

\* C17: under ErrorBehaviorContinue and without cancellation, an error of
\* pollEvents leaves the range loop where it is, with the same types still
\* to visit; when checkSubscriptions returns from a tick with a failed
\* fetch, and not for a failed header lookup, every subscribed type has been fetched for every range up to the
\* head, the failed pair once like the others, every event of a successful
\* fetch has reached the subscriptions of its type, and checkSubscriptions
\* returns the head and a nil error as after a tick without failure, so
\* that Run never returns an error on account of the failed fetch.
C17_ContinueGoesOn ==
    /\ [][(pc = "pollerr" /\ ~cancelled
             /\ PollingErrorBehavior = ErrorBehaviorContinue) =>
            (pc' \in {"pollerr", "range"} /\ todo' = todo /\ result' = result)]_vars
    /\ []((/\ pc = "ret"
            /\ ~cancelled
            /\ PollingErrorBehavior = ErrorBehaviorContinue
            /\ ~AllFetchesOk
            /\ ~LookupFailed) =>
            /\ err = Nil
            /\ newLatest = latest
            /\ \A type \in DOMAIN subscriptions :
                   latest > preTick => RangesOf(type) = ExpectedRanges(preTick, latest)
            /\ \A f \in 1..Len(fetchLog) :
                   fetchLog[f].ok =>
                       LET c == fetchLog[f]
                           blocks == EventsForHeightRange(c.Type, c.StartHeight, c.EndHeight)
                       IN  \A be \in 1..Len(blocks) : \A ev \in 1..Len(blocks[be].Events) :
                               \A s \in Registered(c.Type) : TimesSent(s, f, be, ev) >= 1)
    /\ []((pc = "done" /\ ticks > 0 /\ PollingErrorBehavior = ErrorBehaviorContinue) =>
            result = Nil)

\* C17's case: the first fetch of a tick failed, the fetch for the other
\* type of the same range and a fetch for the next range succeeded, their
\* events were delivered, and checkSubscriptions has returned
C17_Witness ==
    /\ pc = "ret"
    /\ ~cancelled
    /\ PollingErrorBehavior = ErrorBehaviorContinue
    /\ Len(fetchLog) = 4
    /\ ~fetchLog[1].ok
    /\ fetchLog[2].ok
    /\ fetchLog[2].StartHeight = fetchLog[1].StartHeight
    /\ fetchLog[2].Type # fetchLog[1].Type
    /\ fetchLog[3].ok
    /\ fetchLog[3].StartHeight > fetchLog[1].StartHeight
    /\ \E s \in 1..nextId : \E k \in 1..Len(received[s]) :
           received[s][k].tick = ticks /\ received[s][k].fetch = 2
    /\ \E s \in 1..nextId : \E k \in 1..Len(received[s]) :
           received[s][k].tick = ticks /\ received[s][k].fetch > 2

(***************************************************************************)
(* Blocking dispatch (C18).                                                *)
(***************************************************************************)
\* C18: while Run is at the select of a send and the context is not
\* cancelled, the only steps are the cancellation and the receipt of that
\* event by that subscriber: no other event is sent, no ledger query is
\* made, no tick starts and lastest does not move.  When the subscriber
\* never reads its channel, nothing but the cancellation ever changes.
C18_SendBlocksEverything ==
    [][(pc = "send" /\ ~cancelled) =>
        LET sub == rangeSubs[pos.sub]
        IN  /\ UNCHANGED << fetchLog, failures, ticks, lastest, result, lastHeader, latest,
                            header, todo >>
            /\ \/ /\ cancelled'
                  /\ UNCHANGED << pc, pos, received >>
               \/ /\ sub \notin undrained
                  /\ ~cancelled'
                  /\ received' = [received EXCEPT ![sub] = Append(@, Delivery(pos))]]_vars

\* C18's case: a subscription has received events of the tick, the send to
\* another one, which never reads, is blocked, the context is not cancelled,
\* and a further range of the tick is still to be fetched
C18_Witness ==
    /\ BlockedSend
    /\ ~cancelled
    /\ header < latest
    /\ \E s \in 1..nextId : \E k \in 1..Len(received[s]) : received[s][k].tick = ticks

(***************************************************************************)
(* Subscribe and Unsubscribe during a tick (C14, C15), under               *)
(* ConcurrentSpec.                                                         *)
(***************************************************************************)
\* C14: when checkSubscriptions returns from a tick whose calls all
\* succeeded, every event type fetched in the tick has been fetched for
\* every range of the tick, as with a set of types taken once when the tick
\* began: no type is fetched for some of the ranges only, whatever Subscribe
\* and Unsubscribe calls were made during the tick.
C14_TypesAreATickSnapshot ==
    (pc = "ret" /\ newLatest # 0 /\ AllFetchesOk /\ latest > preTick) =>
        \A type \in EventTypes :
            RangesOf(type) \in {<<>>, ExpectedRanges(preTick, latest)}

\* the subscriptions the sub loop has still to send the event to
Pending == IF pc = "send" THEN SubSeq(rangeSubs, pos.sub, Len(rangeSubs)) ELSE <<>>

====
